---- MODULE Spec2Model ----
(***************************************************************************)
(* Participant removal in a Secret-Santa room: DeleteUserHandler.Handle    *)
(* run by several concurrent requests against one persisted store of       *)
(* rooms and their participants, together with the draw that closes a      *)
(* room.  Every await of the handler is an interleaving point.             *)
(***************************************************************************)
EXTENDS Integers, Sequences, FiniteSets, TLC

\* ---------------------------------------------------------------- bounds
NumUsers == 4
NumRooms == 2
MaxCalls == 2
MaxUiEvents == 4

\* The concurrently running requests (two request scopes).
Requests == {"r1", "r2"}

Users == 1 .. NumUsers
Rooms == 1 .. NumRooms
\* Ids a request may name: every participant and one id nobody ever had.
Ids == 1 .. (NumUsers + 1)

Null == "null"

\* ------------------------------------------------------- the stored entities
\* Every room is created with one admin participant: room r has admin r.
\* The remaining participants joined room 1.
RoomIdOf(u) == IF u <= NumRooms THEN u ELSE 1
IsAdminOf(u) == u <= NumRooms
AdminId(r) == r
AuthCode(u) == <<"code", u>>
InvalidCode == <<"code", 0>>
Codes == {AuthCode(u) : u \in Users} \cup {InvalidCode}

User(u) == [Id |-> u, RoomId |-> RoomIdOf(u), IsAdmin |-> IsAdminOf(u),
            AuthCode |-> AuthCode(u)]
NoUser == [Id |-> 0, RoomId |-> 0, IsAdmin |-> FALSE, AuthCode |-> InvalidCode]
NoRoom == [Id |-> 0, ClosedOn |-> Null, Users |-> {}]

\* ------------------------------------------------------------ result values
NoResult == [kind |-> "None", field |-> "", message |-> ""]
Success == [kind |-> "Success", field |-> "", message |-> ""]
NotFoundError(f, m) == [kind |-> "NotFound", field |-> f, message |-> m]
ForbiddenError(f, m) == [kind |-> "Forbidden", field |-> f, message |-> m]
BadRequestError(f, m) == [kind |-> "BadRequest", field |-> f, message |-> m]

\* Errors the room repository may answer a lookup with, and the messages
\* with which it may refuse an update.
RepoErrors == {NotFoundError("userCode", "Room not found"),
               ForbiddenError("room", "Room unavailable"),
               BadRequestError("room", "Room lookup failed")}
UpdateFailures == {"Database update failed"}

VARIABLES
  roomUsers,     \* persisted: room -> set of participant ids
  closedOn,      \* persisted: room -> Null or the time of the draw
  pc,            \* request -> the await the request is suspended at
  request,       \* request -> DeleteUserCommand(UserCode, UserId)
  adminUserResult,     \* request -> local adminUserResult
  userToDeleteResult,  \* request -> local userToDeleteResult
  roomResult,    \* request -> local roomResult, as GetByUserCodeAsync returned it
  room,          \* request -> local room (the loaded aggregate, mutated in memory)
  updateResult,  \* request -> local updateResult
  result,        \* request -> what Handle returned
  calls,         \* request -> repository calls issued so far, in order
  started,       \* number of requests received so far
  status,        \* request -> HTTP status the endpoint answered with, 0 before
  settledBefore, \* request -> the requests that had returned, their write being
                 \* what the store held, when this request was received
  userCode,            \* ParticipantsList: useParams().userCode
  participants,        \* ParticipantsList: prop participants (ids, in the room)
  onDeleteParticipant, \* ParticipantsList: whether the prop is passed
  participantToDelete, \* ParticipantsList: state participantToDelete (0 for null)
  deleteCalls,         \* ParticipantsList: ids onDeleteParticipant was invoked with
  lastClicked,         \* ParticipantsList: delete button clicked since the last
                       \* confirm or cancel (0 for none)
  uiEvent,             \* ParticipantsList: the handler that ran last
  uiEvents             \* ParticipantsList: number of user events so far

uiVars == <<userCode, participants, onDeleteParticipant, participantToDelete,
            deleteCalls, lastClicked, uiEvent, uiEvents>>

handlerVars == <<roomUsers, closedOn, pc, request, adminUserResult, userToDeleteResult,
                 roomResult, room, updateResult, result, calls, started, status,
                 settledBefore>>

vars == <<handlerVars, uiVars>>

persisted == <<roomUsers, closedOn>>

\* ------------------------------------------------------------- repositories
\* A participant is stored while its room's collection holds it.
UserExists(u) == u \in Users /\ u \in roomUsers[RoomIdOf(u)]

\* Result<T, ValidationResult> of a repository call; Pending before the call.
Pending(v) == [IsSuccess |-> FALSE, IsFailure |-> FALSE, Value |-> v, Error |-> NoResult]
Found(v) == [IsSuccess |-> TRUE, IsFailure |-> FALSE, Value |-> v, Error |-> NoResult]
Failed(v, e) == [IsSuccess |-> FALSE, IsFailure |-> TRUE, Value |-> v, Error |-> e]

\* Result of IRoomRepository.UpdateAsync: success, or a failure with its message.
UpdatePending == [IsSuccess |-> FALSE, IsFailure |-> FALSE, Error |-> ""]
UpdateOk == [IsSuccess |-> TRUE, IsFailure |-> FALSE, Error |-> ""]
UpdateFailed(msg) == [IsSuccess |-> FALSE, IsFailure |-> TRUE, Error |-> msg]

\* IUserReadOnlyRepository.GetByCodeAsync
GetByCodeAsync(code) ==
  IF \E u \in Users : AuthCode(u) = code /\ UserExists(u)
    THEN Found(User(CHOOSE u \in Users : AuthCode(u) = code /\ UserExists(u)))
    ELSE Failed(NoUser, NotFoundError("userCode", "User with such code not found"))

\* IUserReadOnlyRepository.GetByIdAsync
GetByIdAsync(id) ==
  IF UserExists(id) THEN Found(User(id))
  ELSE Failed(NoUser, NotFoundError("id", "User with such id not found"))

\* IRoomRepository.GetByUserCodeAsync, when the store answers: the aggregate
\* of the room the code's owner belongs to.
GetByUserCodeAsync(code) ==
  LET u == GetByCodeAsync(code)
  IN IF u.IsFailure THEN Failed(NoRoom, NotFoundError("userCode", "Room not found"))
     ELSE Found([Id |-> u.Value.RoomId,
                 ClosedOn |-> closedOn[u.Value.RoomId],
                 Users |-> roomUsers[u.Value.RoomId]])

\* ------------------------------------------------- the checks of Handle
IsNotAdmin_Skipped(a) == FALSE

\* 2. Check if user is admin
IsNotAdmin(a) == ~a.IsAdmin

DifferentRooms_Skipped(a, t) == FALSE

\* 4. Check if both users belong to the same room
DifferentRooms(a, t) == a.RoomId # t.RoomId

IsSelfDeletion_Skipped(a, t) == FALSE

\* 5. Check if admin is not trying to delete himself
IsSelfDeletion(a, t) == a.Id = t.Id

IsClosed_Skipped(rm) == FALSE

\* 7. Check if room is not closed
IsClosed(rm) == rm.ClosedOn # Null

\* A removal that empties the collection when the target is not in it.
RemoveUser_ClearWhenAbsent(us, id) ==
  IF id \in us THEN us \ {id} ELSE {}

RemoveUser_Nothing(us, id) == us

\* 8. Remove user from room: FirstOrDefault by id, Remove when found
RemoveUser(us, id) == IF id \in us THEN us \ {id} ELSE us

UserCodeNotFound_OnId == NotFoundError("id", "User with such code not found")
IdNotFound_OnUserCode == NotFoundError("userCode", "User with such id not found")
AdminCannotDeleteHimself_Forbidden == ForbiddenError("id", "Admin cannot delete himself")
IdNotFound_Idempotent == Success

\* The failures Handle constructs.
UserCodeNotFound == NotFoundError("userCode", "User with such code not found")
OnlyAdminCanDelete == ForbiddenError("userCode", "Only admin can delete users from the room")
IdNotFound == NotFoundError("id", "User with such id not found")
DifferentRoomsError ==
  ForbiddenError("id", "User with userCode and user with id belong to different rooms")
AdminCannotDeleteHimself == BadRequestError("id", "Admin cannot delete himself")
ClosedRoomError == BadRequestError("room", "Cannot delete user from a closed room")
UpdateFailedError_OnRoom(msg) == BadRequestError("room", "Cannot update the room")
ConvertFailure_Wrapped(r) == BadRequestError("", r.Error.message)

UpdateFailedError(msg) == BadRequestError("", msg)

\* roomResult.ConvertFailure<Unit>(): the repository's error, as it is
ConvertFailure(r) == r.Error

\* A binding that answers every failure with 400.
StatusCode_AllBadRequest(res) ==
  IF res.kind = "Success" THEN 204 ELSE 400

\* The endpoint DELETE /users/{id}?userCode={code}: the status it answers a
\* use-case outcome with.
StatusCode(res) ==
  IF res.kind = "Success" THEN 204
  ELSE IF res.kind = "NotFound" THEN 404
  ELSE IF res.kind = "Forbidden" THEN 403
  ELSE 400

\* A request without the userCode query parameter.
NoUserCode == <<"code", -1>>

\* ParticipantsList before it is mounted.
UiIdle ==
  /\ userCode = InvalidCode
  /\ participants = {}
  /\ onDeleteParticipant = FALSE
  /\ participantToDelete = 0
  /\ deleteCalls = <<>>
  /\ lastClicked = 0
  /\ uiEvent = "none"
  /\ uiEvents = 0

\* ------------------------------------------------------------------ Init
HandlerInit ==
  /\ roomUsers = [r \in Rooms |-> {u \in Users : RoomIdOf(u) = r}]
  /\ closedOn = [r \in Rooms |-> Null]
  /\ pc = [i \in Requests |-> "idle"]
  /\ request = [i \in Requests |-> [UserCode |-> InvalidCode, UserId |-> 0]]
  /\ adminUserResult = [i \in Requests |-> Pending(NoUser)]
  /\ userToDeleteResult = [i \in Requests |-> Pending(NoUser)]
  /\ roomResult = [i \in Requests |-> Pending(NoRoom)]
  /\ room = [i \in Requests |-> NoRoom]
  /\ updateResult = [i \in Requests |-> UpdatePending]
  /\ result = [i \in Requests |-> NoResult]
  /\ calls = [i \in Requests |-> <<>>]
  /\ started = 0
  /\ status = [i \in Requests |-> 0]
  /\ settledBefore = [i \in Requests |-> {}]

Init == HandlerInit /\ UiIdle

\* --------------------------------------------------------------- actions
\* Handle returns res.
Return(i, res) ==
  /\ pc' = [pc EXCEPT ![i] = "done"]
  /\ result' = [result EXCEPT ![i] = res]
  /\ status' = [status EXCEPT ![i] = StatusCode(res)]

\* A request arrives: Handle(new DeleteUserCommand(code, id), token) is
\* entered and suspends at its first await.
\* Request j has returned and, if it succeeded, the store holds what it wrote.
Settled(j) ==
  /\ pc[j] = "done"
  /\ updateResult[j].IsSuccess => roomUsers[room[j].Id] = room[j].Users

Start(i, code, id) ==
  /\ pc[i] \in {"idle", "done", "cancelled", "rejected"}
  /\ started < MaxCalls
  /\ started' = started + 1
  /\ pc' = [pc EXCEPT ![i] = "GetByCodeAsync"]
  /\ request' = [request EXCEPT ![i] = [UserCode |-> code, UserId |-> id]]
  /\ adminUserResult' = [adminUserResult EXCEPT ![i] = Pending(NoUser)]
  /\ userToDeleteResult' = [userToDeleteResult EXCEPT ![i] = Pending(NoUser)]
  /\ roomResult' = [roomResult EXCEPT ![i] = Pending(NoRoom)]
  /\ room' = [room EXCEPT ![i] = NoRoom]
  /\ updateResult' = [updateResult EXCEPT ![i] = UpdatePending]
  /\ result' = [result EXCEPT ![i] = NoResult]
  /\ calls' = [calls EXCEPT ![i] = <<>>]
  /\ status' = [status EXCEPT ![i] = 0]
  /\ settledBefore' = [j \in Requests |->
                         IF j = i THEN {k \in Requests \ {i} : Settled(k)}
                         ELSE settledBefore[j] \ {i}]
  /\ UNCHANGED <<persisted, uiVars>>

\* A request without userCode arrives: the endpoint answers 400 and the use
\* case is not run.
RejectMissingUserCode(i, id) ==
  /\ pc[i] \in {"idle", "done", "cancelled", "rejected"}
  /\ started < MaxCalls
  /\ started' = started + 1
  /\ pc' = [pc EXCEPT ![i] = "rejected"]
  /\ request' = [request EXCEPT ![i] = [UserCode |-> NoUserCode, UserId |-> id]]
  /\ adminUserResult' = [adminUserResult EXCEPT ![i] = Pending(NoUser)]
  /\ userToDeleteResult' = [userToDeleteResult EXCEPT ![i] = Pending(NoUser)]
  /\ roomResult' = [roomResult EXCEPT ![i] = Pending(NoRoom)]
  /\ room' = [room EXCEPT ![i] = NoRoom]
  /\ updateResult' = [updateResult EXCEPT ![i] = UpdatePending]
  /\ result' = [result EXCEPT ![i] = NoResult]
  /\ calls' = [calls EXCEPT ![i] = <<>>]
  /\ status' = [status EXCEPT ![i] = 400]
  /\ settledBefore' = [j \in Requests |->
                         IF j = i THEN {} ELSE settledBefore[j] \ {i}]
  /\ UNCHANGED <<persisted, uiVars>>

\* Steps 1-2: the admin lookup completes; admin-flag check.
ResolveAdmin(i) ==
  /\ pc[i] = "GetByCodeAsync"
  /\ calls' = [calls EXCEPT ![i] = Append(@, "GetByCodeAsync")]
  /\ adminUserResult' = [adminUserResult EXCEPT ![i] = GetByCodeAsync(request[i].UserCode)]
  /\ LET adminUser == adminUserResult'[i].Value
     IN IF adminUserResult'[i].IsFailure
          THEN Return(i, UserCodeNotFound)
          ELSE IF IsNotAdmin(adminUser)
            THEN Return(i, OnlyAdminCanDelete)
            ELSE /\ pc' = [pc EXCEPT ![i] = "GetByIdAsync"]
                 /\ UNCHANGED <<result, status>>
  /\ UNCHANGED <<persisted, request, userToDeleteResult, roomResult, room, updateResult,
                 started, settledBefore, uiVars>>

\* Steps 3-5: the target lookup completes; same-room and self-deletion checks.
ResolveTarget(i) ==
  /\ pc[i] = "GetByIdAsync"
  /\ calls' = [calls EXCEPT ![i] = Append(@, "GetByIdAsync")]
  /\ userToDeleteResult' = [userToDeleteResult EXCEPT ![i] = GetByIdAsync(request[i].UserId)]
  /\ LET adminUser == adminUserResult[i].Value
         userToDelete == userToDeleteResult'[i].Value
     IN IF userToDeleteResult'[i].IsFailure
          THEN Return(i, IdNotFound)
          ELSE IF DifferentRooms(adminUser, userToDelete)
            THEN Return(i, DifferentRoomsError)
            ELSE IF IsSelfDeletion(adminUser, userToDelete)
              THEN Return(i, AdminCannotDeleteHimself)
              ELSE /\ pc' = [pc EXCEPT ![i] = "GetByUserCodeAsync"]
                   /\ UNCHANGED <<result, status>>
  /\ UNCHANGED <<persisted, request, adminUserResult, roomResult, room, updateResult,
                 started, settledBefore, uiVars>>

\* Steps 6-8: the room lookup completes; closed-room check; in-memory removal.
\* The repository either answers with the aggregate or with one of its errors.
LoadRoom(i) ==
  /\ pc[i] = "GetByUserCodeAsync"
  /\ calls' = [calls EXCEPT ![i] = Append(@, "GetByUserCodeAsync")]
  /\ \E answer \in {GetByUserCodeAsync(request[i].UserCode)}
                     \cup {Failed(NoRoom, e) : e \in RepoErrors} :
       /\ roomResult' = [roomResult EXCEPT ![i] = answer]
       /\ IF answer.IsFailure
            THEN /\ Return(i, ConvertFailure(answer))
                 /\ UNCHANGED room
            ELSE IF IsClosed(answer.Value)
              THEN /\ Return(i, ClosedRoomError)
                   /\ room' = [room EXCEPT ![i] = answer.Value]
              ELSE /\ room' = [room EXCEPT ![i] =
                                 [answer.Value EXCEPT !.Users = RemoveUser(@, request[i].UserId)]]
                   /\ pc' = [pc EXCEPT ![i] = "UpdateAsync"]
                   /\ UNCHANGED <<result, status>>
  /\ UNCHANGED <<persisted, request, adminUserResult, userToDeleteResult, updateResult,
                 started, settledBefore, uiVars>>

\* An update that only deletes what the aggregate no longer holds, keeping
\* the deletions other writers stored meanwhile.
UpdateAsync_Merge(rm, takeClosedOn) ==
  /\ roomUsers' = [roomUsers EXCEPT ![rm.Id] = @ \cap rm.Users]
  /\ closedOn' = IF takeClosedOn THEN [closedOn EXCEPT ![rm.Id] = rm.ClosedOn]
                 ELSE closedOn

\* IRoomRepository.UpdateAsync, when it succeeds: the aggregate's participant
\* collection replaces the stored one; the store keeps or takes the
\* aggregate's ClosedOn.
UpdateAsync(rm, takeClosedOn) ==
  /\ roomUsers' = [roomUsers EXCEPT ![rm.Id] = rm.Users]
  /\ closedOn' = IF takeClosedOn THEN [closedOn EXCEPT ![rm.Id] = rm.ClosedOn]
                 ELSE closedOn

\* As PersistRoom, but a refused update is issued a second time.
PersistRoom_Retry(i) ==
  /\ pc[i] = "UpdateAsync"
  /\ \/ /\ \E takeClosedOn \in BOOLEAN : UpdateAsync(room[i], takeClosedOn)
        /\ calls' = [calls EXCEPT ![i] = Append(@, "UpdateAsync")]
        /\ updateResult' = [updateResult EXCEPT ![i] = UpdateOk]
        /\ Return(i, Success)
     \/ /\ \E msg \in UpdateFailures :
             /\ updateResult' = [updateResult EXCEPT ![i] = UpdateFailed(msg)]
             /\ Return(i, UpdateFailedError(updateResult'[i].Error))
        /\ calls' = [calls EXCEPT ![i] = Append(Append(@, "UpdateAsync"), "UpdateAsync")]
        /\ UNCHANGED persisted
  /\ UNCHANGED <<request, adminUserResult, userToDeleteResult, roomResult, room,
                 started, settledBefore, uiVars>>

\* Step 9: the update completes, with success or with a failure message.
PersistRoom(i) ==
  /\ pc[i] = "UpdateAsync"
  /\ calls' = [calls EXCEPT ![i] = Append(@, "UpdateAsync")]
  /\ \/ /\ \E takeClosedOn \in BOOLEAN : UpdateAsync(room[i], takeClosedOn)
        /\ updateResult' = [updateResult EXCEPT ![i] = UpdateOk]
        /\ Return(i, Success)
     \/ /\ \E msg \in UpdateFailures :
             /\ updateResult' = [updateResult EXCEPT ![i] = UpdateFailed(msg)]
             /\ Return(i, UpdateFailedError(updateResult'[i].Error))
        /\ UNCHANGED persisted
  /\ UNCHANGED <<request, adminUserResult, userToDeleteResult, roomResult, room,
                 started, settledBefore, uiVars>>

\* As Cancel, but an update interrupted by the token has already stored the
\* aggregate.
Cancel_WriteThrough(i) ==
  /\ pc[i] \in {"GetByCodeAsync", "GetByIdAsync", "GetByUserCodeAsync", "UpdateAsync"}
  /\ pc' = [pc EXCEPT ![i] = "cancelled"]
  /\ roomUsers' = IF pc[i] = "UpdateAsync"
                    THEN [roomUsers EXCEPT ![room[i].Id] = room[i].Users]
                    ELSE roomUsers
  /\ UNCHANGED <<closedOn, request, adminUserResult, userToDeleteResult, roomResult,
                 room, updateResult, result, calls, started, status, settledBefore,
                 uiVars>>

\* The cancellation token fires while the request is suspended at an await:
\* the awaited call throws and Handle returns nothing.
Cancel(i) ==
  /\ pc[i] \in {"GetByCodeAsync", "GetByIdAsync", "GetByUserCodeAsync", "UpdateAsync"}
  /\ pc' = [pc EXCEPT ![i] = "cancelled"]
  /\ UNCHANGED <<persisted, request, adminUserResult, userToDeleteResult, roomResult,
                 room, updateResult, result, calls, started, status, settledBefore,
                 uiVars>>

\* The draw closes an open room.
Draw(r) ==
  /\ closedOn[r] = Null
  /\ closedOn' = [closedOn EXCEPT ![r] = "drawn"]
  /\ UNCHANGED <<roomUsers, pc, request, adminUserResult, userToDeleteResult, roomResult,
                 room, updateResult, result, calls, started, status, settledBefore,
                 uiVars>>

Next ==
  \/ \E i \in Requests, code \in Codes, id \in Ids : Start(i, code, id)
  \/ \E i \in Requests, id \in Ids : RejectMissingUserCode(i, id)
  \/ \E i \in Requests : ResolveAdmin(i)
  \/ \E i \in Requests : ResolveTarget(i)
  \/ \E i \in Requests : LoadRoom(i)
  \/ \E i \in Requests : PersistRoom(i)
  \/ \E i \in Requests : Cancel(i)
  \/ \E r \in Rooms : Draw(r)

Spec == Init /\ [][Next]_vars

TypeOK ==
  /\ roomUsers \in [Rooms -> SUBSET Users]
  /\ \A i \in Requests : pc[i] \in {"idle", "GetByCodeAsync", "GetByIdAsync",
                                     "GetByUserCodeAsync", "UpdateAsync", "done", "cancelled",
                                     "rejected"}
  /\ started \in 0 .. MaxCalls

\* ------------------------------------------------------- ParticipantsList
\* participants.find(p => p.isAdmin) and participants.filter(p => !p.isAdmin)
admin == CHOOSE u \in participants : IsAdminOf(u)
restParticipants == {u \in participants : ~IsAdminOf(u)}

\* The card of user gets an onDeleteButtonClick: lines 95 and 108-112.
onDeleteButtonClick(user) ==
  /\ user \in restParticipants
  /\ userCode = AuthCode(admin)
  /\ userCode # AuthCode(user)
  /\ onDeleteParticipant

\* The confirmation modal is rendered: line 125.
ModalOpen == participantToDelete # 0

\* The component is mounted: the route gives userCode, the parent passes the
\* participants of one room, its admin among them, and may pass
\* onDeleteParticipant.
Props(code, r, ps, cb) ==
  /\ userCode = code
  /\ participants = {AdminId(r)} \cup ps
  /\ onDeleteParticipant = cb

UiInit ==
  /\ HandlerInit
  /\ \E code \in Codes, r \in Rooms, cb \in BOOLEAN :
       \E ps \in SUBSET {u \in Users : RoomIdOf(u) = r /\ ~IsAdminOf(u)} :
         Props(code, r, ps, cb)
  /\ participantToDelete = 0
  /\ deleteCalls = <<>>
  /\ lastClicked = 0
  /\ uiEvent = "mount"
  /\ uiEvents = 0

\* The parent re-renders the component with new props; its state is kept.
Render(code, r, ps, cb) ==
  /\ uiEvents < MaxUiEvents
  /\ uiEvents' = uiEvents + 1
  /\ ~Props(code, r, ps, cb)
  /\ userCode' = code
  /\ participants' = {AdminId(r)} \cup ps
  /\ onDeleteParticipant' = cb
  /\ uiEvent' = "render"
  /\ UNCHANGED <<participantToDelete, deleteCalls, lastClicked, handlerVars>>

\* The delete button of user's card is clicked: lines 43-49.
handleDeleteButtonClick(user) ==
  /\ onDeleteButtonClick(user)
  /\ uiEvents < MaxUiEvents
  /\ uiEvents' = uiEvents + 1
  /\ participantToDelete' = user
  /\ lastClicked' = user
  /\ uiEvent' = "click"
  /\ UNCHANGED <<userCode, participants, onDeleteParticipant, deleteCalls, handlerVars>>

\* A confirm handler that leaves the pending participant in place.
handleDeleteConfirm_NoReset ==
  /\ ModalOpen
  /\ uiEvents < MaxUiEvents
  /\ uiEvents' = uiEvents + 1
  /\ deleteCalls' = IF participantToDelete # 0 /\ onDeleteParticipant
                     THEN Append(deleteCalls, participantToDelete)
                     ELSE deleteCalls
  /\ lastClicked' = 0
  /\ uiEvent' = "confirm"
  /\ UNCHANGED <<participantToDelete, userCode, participants, onDeleteParticipant,
                 handlerVars>>

\* The modal's Delete button is clicked: lines 51-56.
handleDeleteConfirm ==
  /\ ModalOpen
  /\ uiEvents < MaxUiEvents
  /\ uiEvents' = uiEvents + 1
  /\ deleteCalls' = IF participantToDelete # 0 /\ onDeleteParticipant
                     THEN Append(deleteCalls, participantToDelete)
                     ELSE deleteCalls
  /\ participantToDelete' = 0
  /\ lastClicked' = 0
  /\ uiEvent' = "confirm"
  /\ UNCHANGED <<userCode, participants, onDeleteParticipant, handlerVars>>

\* The modal's Cancel button is clicked: lines 58-60.
handleDeleteCancel ==
  /\ ModalOpen
  /\ uiEvents < MaxUiEvents
  /\ uiEvents' = uiEvents + 1
  /\ participantToDelete' = 0
  /\ lastClicked' = 0
  /\ uiEvent' = "cancel"
  /\ UNCHANGED <<userCode, participants, onDeleteParticipant, deleteCalls, handlerVars>>

UiNext ==
  \/ \E code \in Codes, r \in Rooms, cb \in BOOLEAN :
       \E ps \in SUBSET {u \in Users : RoomIdOf(u) = r /\ ~IsAdminOf(u)} :
         Render(code, r, ps, cb)
  \/ \E user \in Users : handleDeleteButtonClick(user)
  \/ handleDeleteConfirm
  \/ handleDeleteCancel

UiSpec == UiInit /\ [][UiNext]_vars

\* ----------------------------------------------------------- observations
Returned(i) == pc[i] = "done"
NumCalls(i, name) == Cardinality({k \in 1 .. Len(calls[i]) : calls[i][k] = name})
Tagged(res, kind, field) == res.kind = kind /\ res.field = field

\* The caller resolved to an admin and the target to a non-admin of the
\* admin's room.
AdminAndValidTarget(i) ==
  /\ adminUserResult[i].IsSuccess
  /\ adminUserResult[i].Value.IsAdmin
  /\ userToDeleteResult[i].IsSuccess
  /\ ~userToDeleteResult[i].Value.IsAdmin
  /\ userToDeleteResult[i].Value.RoomId = adminUserResult[i].Value.RoomId

\* ------------------------------------------------------------------ C1
\* C1: when an admin deletes an existing non-admin participant of its own
\* room, the loaded room is open and holds the target, and UpdateAsync
\* succeeds, Handle returns success, the room's collection no longer holds
\* the target and has exactly one member fewer than when it was loaded, and
\* exactly one UpdateAsync call was issued.
C1_DeleteSucceeds ==
  \A i \in Requests :
    ( /\ Returned(i)
      /\ AdminAndValidTarget(i)
      /\ roomResult[i].IsSuccess
      /\ roomResult[i].Value.ClosedOn = Null
      /\ request[i].UserId \in roomResult[i].Value.Users
      /\ updateResult[i].IsSuccess )
    => /\ result[i] = Success
       /\ request[i].UserId \notin room[i].Users
       /\ room[i].Users \subseteq roomResult[i].Value.Users
       /\ Cardinality(room[i].Users) = Cardinality(roomResult[i].Value.Users) - 1
       /\ NumCalls(i, "UpdateAsync") = 1

C1_Witness ==
  \E i \in Requests :
    /\ Returned(i)
    /\ AdminAndValidTarget(i)
    /\ roomResult[i].IsSuccess
    /\ request[i].UserId \in roomResult[i].Value.Users
    /\ updateResult[i].IsSuccess
    /\ result[i] = Success
    /\ request[i].UserId \notin roomUsers[room[i].Id]

\* ------------------------------------------------------------------ C2
\* C2: when an admin deletes a valid non-admin target of its own room and the
\* loaded room's ClosedOn is set, Handle returns BadRequest on field "room",
\* the room's collection is as loaded, and no UpdateAsync call is issued.
C2_ClosedRoomRejected ==
  \A i \in Requests :
    ( /\ Returned(i)
      /\ AdminAndValidTarget(i)
      /\ roomResult[i].IsSuccess
      /\ roomResult[i].Value.ClosedOn # Null )
    => /\ Tagged(result[i], "BadRequest", "room")
       /\ room[i].Users = roomResult[i].Value.Users
       /\ NumCalls(i, "UpdateAsync") = 0
       /\ updateResult[i] = UpdatePending

C2_Witness ==
  \E i \in Requests :
    /\ Returned(i)
    /\ AdminAndValidTarget(i)
    /\ roomResult[i].IsSuccess
    /\ roomResult[i].Value.ClosedOn # Null
    /\ request[i].UserId \in roomResult[i].Value.Users
    /\ result[i] = ClosedRoomError

\* ------------------------------------------------------------------ C3
\* C3: once a room's ClosedOn is set, its persisted participant collection
\* never changes again, also when the draw interleaves with a delete that
\* already passed its closed-room check.
C3_ClosedRoomFrozen ==
  [][\A r \in Rooms : closedOn[r] # Null => roomUsers'[r] = roomUsers[r]]_vars

\* ------------------------------------------------------------------ C4
\* C4: after any sequence of delete invocations, every room's persisted
\* collection holds exactly one admin-flagged participant, the one named by
\* Room.AdminId.
C4_ExactlyOneAdmin ==
  \A r \in Rooms :
    {u \in roomUsers[r] : IsAdminOf(u)} = {AdminId(r)}

C4_Witness ==
  \E i, j \in Requests :
    /\ i # j
    /\ Returned(i) /\ result[i] = Success
    /\ request[i].UserId \notin roomUsers[room[i].Id]
    /\ Returned(j)
    /\ adminUserResult[j].IsSuccess /\ adminUserResult[j].Value.IsAdmin
    /\ request[j].UserId = adminUserResult[j].Value.Id
    /\ adminUserResult[j].Value.RoomId = room[i].Id

\* ------------------------------------------------------------------ C5
\* C5: for every resolved caller whose admin flag is false, Handle returns
\* Forbidden on field "userCode" whatever the target id is, and GetByIdAsync
\* is not called.
C5_NonAdminForbidden ==
  \A i \in Requests :
    (Returned(i) /\ adminUserResult[i].IsSuccess /\ ~adminUserResult[i].Value.IsAdmin)
    => /\ Tagged(result[i], "Forbidden", "userCode")
       /\ NumCalls(i, "GetByIdAsync") = 0
       /\ userToDeleteResult[i] = Pending(NoUser)

\* Two non-admin callers: one names itself, one names an id nobody has.
C5_Witness ==
  \E i, j \in Requests :
    /\ Returned(i) /\ adminUserResult[i].IsSuccess /\ ~adminUserResult[i].Value.IsAdmin
    /\ request[i].UserId = adminUserResult[i].Value.Id
    /\ Returned(j) /\ adminUserResult[j].IsSuccess /\ ~adminUserResult[j].Value.IsAdmin
    /\ request[j].UserId \notin Users

\* ------------------------------------------------------------------ C6
\* C6: for every UserCode the user repository does not resolve, Handle
\* returns NotFound on field "userCode", whatever the target id is.
C6_UnknownCodeNotFound ==
  \A i \in Requests :
    (Returned(i) /\ adminUserResult[i].IsFailure)
    => Tagged(result[i], "NotFound", "userCode")

\* Two callers whose code did not resolve: one names an existing target, the
\* other an id nobody has.
C6_Witness ==
  \E i, j \in Requests :
    /\ Returned(i) /\ adminUserResult[i].IsFailure
    /\ UserExists(request[i].UserId)
    /\ Returned(j) /\ adminUserResult[j].IsFailure
    /\ request[j].UserId \notin Users

\* ------------------------------------------------------------------ C7
\* C7: given a caller that resolves to an admin, for every target id the user
\* repository does not resolve, Handle returns NotFound on field "id".
C7_UnknownIdNotFound ==
  \A i \in Requests :
    ( /\ Returned(i)
      /\ adminUserResult[i].IsSuccess /\ adminUserResult[i].Value.IsAdmin
      /\ userToDeleteResult[i].IsFailure )
    => Tagged(result[i], "NotFound", "id")

C7_Witness ==
  \E i \in Requests :
    /\ Returned(i)
    /\ adminUserResult[i].IsSuccess /\ adminUserResult[i].Value.IsAdmin
    /\ userToDeleteResult[i].IsFailure
    /\ request[i].UserId \in Users

\* ------------------------------------------------------------------ C8
\* C8: for every (admin, target) pair that both resolve and whose RoomIds
\* differ, Handle returns Forbidden on field "id"; no room is loaded and no
\* update is issued.
C8_DifferentRoomsForbidden ==
  \A i \in Requests :
    ( /\ Returned(i)
      /\ adminUserResult[i].IsSuccess /\ adminUserResult[i].Value.IsAdmin
      /\ userToDeleteResult[i].IsSuccess
      /\ adminUserResult[i].Value.RoomId # userToDeleteResult[i].Value.RoomId )
    => /\ Tagged(result[i], "Forbidden", "id")
       /\ calls[i] = <<"GetByCodeAsync", "GetByIdAsync">>
       /\ room[i] = NoRoom
       /\ updateResult[i] = UpdatePending

C8_Witness ==
  \E i \in Requests :
    /\ Returned(i)
    /\ adminUserResult[i].IsSuccess /\ adminUserResult[i].Value.IsAdmin
    /\ userToDeleteResult[i].IsSuccess
    /\ adminUserResult[i].Value.RoomId # userToDeleteResult[i].Value.RoomId
    /\ ~userToDeleteResult[i].Value.IsAdmin
    /\ request[i].UserId \in roomUsers[RoomIdOf(request[i].UserId)]

\* ------------------------------------------------------------------ C9
\* C9: when the caller is an admin and the target id is the admin's own id,
\* Handle returns BadRequest on field "id" whether the room is open or
\* closed, and the admin stays in the room's persisted collection.
C9_SelfDeletionRejected ==
  \A i \in Requests :
    ( /\ Returned(i)
      /\ adminUserResult[i].IsSuccess /\ adminUserResult[i].Value.IsAdmin
      /\ request[i].UserId = adminUserResult[i].Value.Id )
    => /\ Tagged(result[i], "BadRequest", "id")
       /\ adminUserResult[i].Value.Id \in roomUsers[adminUserResult[i].Value.RoomId]

\* Two admins named themselves: the room of one is closed, of the other open.
C9_Witness ==
  \E i, j \in Requests :
    /\ Returned(i)
    /\ adminUserResult[i].IsSuccess /\ adminUserResult[i].Value.IsAdmin
    /\ request[i].UserId = adminUserResult[i].Value.Id
    /\ closedOn[adminUserResult[i].Value.RoomId] # Null
    /\ Returned(j)
    /\ adminUserResult[j].IsSuccess /\ adminUserResult[j].Value.IsAdmin
    /\ request[j].UserId = adminUserResult[j].Value.Id
    /\ closedOn[adminUserResult[j].Value.RoomId] = Null

\* ----------------------------------------------------------------- C10
\* The checks in the order of the contract, numbered 1 to 7, and the awaits
\* after which they are decided.
FirstCheck(p) ==
  IF p = "GetByCodeAsync" THEN 1 ELSE IF p = "GetByIdAsync" THEN 3 ELSE 6
LastCheck(p) ==
  IF p = "GetByCodeAsync" THEN 2 ELSE IF p = "GetByIdAsync" THEN 5 ELSE 7
NextAwait(p) ==
  IF p = "GetByCodeAsync" THEN "GetByIdAsync"
  ELSE IF p = "GetByIdAsync" THEN "GetByUserCodeAsync" ELSE "UpdateAsync"
CallsUpTo(k) ==
  SubSeq(<<"GetByCodeAsync", "GetByIdAsync", "GetByUserCodeAsync">>, 1,
         IF k <= 2 THEN 1 ELSE IF k <= 5 THEN 2 ELSE 3)
Least(S) == CHOOSE k \in S : \A m \in S : k <= m

\* The checks that fail for request i against the store as it is now; the
\* room lookup (6) fails when the repository answers this step with an error.
FailingChecks(i) ==
  LET a == GetByCodeAsync(request[i].UserCode)
      t == GetByIdAsync(request[i].UserId)
  IN {k \in 1 .. 7 :
        \/ k = 1 /\ a.IsFailure
        \/ k = 2 /\ a.IsSuccess /\ ~a.Value.IsAdmin
        \/ k = 3 /\ t.IsFailure
        \/ k = 4 /\ a.IsSuccess /\ t.IsSuccess /\ a.Value.RoomId # t.Value.RoomId
        \/ k = 5 /\ a.IsSuccess /\ t.IsSuccess /\ a.Value.Id = t.Value.Id
        \/ k = 6 /\ pc[i] = "GetByUserCodeAsync" /\ roomResult'[i].IsFailure
        \/ k = 7 /\ a.IsSuccess /\ closedOn[a.Value.RoomId] # Null}

\* The failure the contract gives check k.
IsFailureOf(res, k, i) ==
  \/ k = 1 /\ Tagged(res, "NotFound", "userCode")
  \/ k = 2 /\ Tagged(res, "Forbidden", "userCode")
  \/ k = 3 /\ Tagged(res, "NotFound", "id")
  \/ k = 4 /\ Tagged(res, "Forbidden", "id")
  \/ k = 5 /\ Tagged(res, "BadRequest", "id")
  \/ k = 6 /\ res = roomResult'[i].Error
  \/ k = 7 /\ Tagged(res, "BadRequest", "room")

\* C10: the checks run in the order resolve-admin, admin-flag, resolve-target,
\* same-room, self-deletion, resolve-room, closed-room and short-circuit:
\* whenever an await of Handle completes, the checks decided after it pass
\* and Handle goes on to the next await, or Handle returns the failure of
\* the earliest check that fails, having issued no repository call of a
\* later step.
C10_FirstFailingCheckWins ==
  [][\A i \in Requests :
       ( /\ pc[i] \in {"GetByCodeAsync", "GetByIdAsync", "GetByUserCodeAsync"}
         /\ pc'[i] \notin {pc[i], "cancelled"} )
       => LET F == {k \in FailingChecks(i) : k >= FirstCheck(pc[i])}
              G == {k \in F : k <= LastCheck(pc[i])}
          IN IF G # {}
               THEN /\ pc'[i] = "done"
                    /\ IsFailureOf(result'[i], Least(F), i)
                    /\ calls'[i] = CallsUpTo(Least(F))
                    /\ NumCalls(i, "UpdateAsync") = 0
               ELSE /\ pc'[i] = NextAwait(pc[i])
                    /\ result'[i] = NoResult
    ]_vars

\* Several checks fail at once: a non-admin caller names an id nobody has
\* (checks 2 and 3), and an admin names itself while its room is closed
\* (checks 5 and 7).
C10_Witness ==
  \E i, j \in Requests :
    /\ Returned(i)
    /\ adminUserResult[i].IsSuccess /\ ~adminUserResult[i].Value.IsAdmin
    /\ request[i].UserId \notin Users
    /\ calls[i] = <<"GetByCodeAsync">>
    /\ Returned(j)
    /\ adminUserResult[j].IsSuccess /\ adminUserResult[j].Value.IsAdmin
    /\ request[j].UserId = adminUserResult[j].Value.Id
    /\ roomResult[j] = Pending(NoRoom)
    /\ closedOn[adminUserResult[j].Value.RoomId] # Null
    /\ calls[j] = <<"GetByCodeAsync", "GetByIdAsync">>

\* ----------------------------------------------------------------- C11
\* C11 as stated: an invocation that returns success issued exactly one
\* UpdateAsync, and one that returns a failure issued none.
C11_NoUpdateOnAnyFailure ==
  \A i \in Requests :
    Returned(i) =>
      /\ result[i] = Success => NumCalls(i, "UpdateAsync") = 1
      /\ result[i] # Success => NumCalls(i, "UpdateAsync") = 0

\* C11, amended: an invocation that returns success issued exactly one
\* UpdateAsync; one that returns a failure issued none, unless the failure is
\* that of UpdateAsync itself, which was then issued exactly once; and the
\* step in which an invocation returns a failure leaves the store as it is.
C11_OneWriteOnSuccessOnly ==
  /\ [](\A i \in Requests :
          Returned(i) =>
            /\ result[i] = Success => NumCalls(i, "UpdateAsync") = 1
            /\ result[i] # Success =>
                 NumCalls(i, "UpdateAsync") = IF updateResult[i].IsFailure THEN 1 ELSE 0)
  /\ [][\A i \in Requests :
          (pc[i] # "done" /\ pc'[i] = "done" /\ result'[i] # Success)
          => persisted' = persisted]_vars

\* An update was refused: the invocation failed after its one UpdateAsync.
C11_Witness ==
  \E i, j \in Requests :
    /\ Returned(i) /\ result[i] # Success /\ updateResult[i].IsFailure
    /\ NumCalls(i, "UpdateAsync") = 1
    /\ roomUsers[room[i].Id] = roomResult[i].Value.Users
    /\ Returned(j) /\ result[j] = Success

\* ----------------------------------------------------------------- C12
\* Request j was received after request i had returned success with its
\* write in the store, and comes from the same caller.
Follows(j, i) ==
  /\ i # j
  /\ i \in settledBefore[j]
  /\ Returned(i) /\ result[i] = Success /\ updateResult[i].IsSuccess
  /\ Returned(j)
  /\ request[j].UserCode = request[i].UserCode

\* C12: when the room's admin deletes two different non-admin participants
\* one after the other from the same open room (no lookup or update is
\* refused), each invocation returns success, and after the second both are
\* absent from the stored room while all other participants remain.
C12_SequentialDeletes ==
  \A i, j \in Requests :
    ( /\ Follows(j, i)
      /\ request[i].UserId \in roomResult[i].Value.Users
      /\ request[j].UserId # request[i].UserId
      /\ request[j].UserId \in room[i].Users
      /\ ~IsAdminOf(request[j].UserId)
      /\ ~roomResult[j].IsFailure
      /\ ~updateResult[j].IsFailure
      /\ closedOn[room[i].Id] = Null )
    => /\ result[j] = Success
       /\ request[i].UserId \notin roomUsers[room[i].Id]
       /\ request[j].UserId \notin roomUsers[room[i].Id]
       /\ roomUsers[room[i].Id] =
            roomResult[i].Value.Users \ {request[i].UserId, request[j].UserId}

C12_Witness ==
  \E i, j \in Requests :
    /\ Follows(j, i)
    /\ request[i].UserId \in roomResult[i].Value.Users
    /\ request[j].UserId # request[i].UserId
    /\ request[j].UserId \in room[i].Users
    /\ ~IsAdminOf(request[j].UserId)
    /\ result[j] = Success
    /\ roomUsers[room[i].Id] = {AdminId(room[i].Id)}

\* ----------------------------------------------------------------- C13
\* C13: delete is not idempotent: after a delete of participant p has
\* succeeded and is stored, a second delete by the same admin with the same
\* id returns NotFound on field "id" and issues no update.
C13_SecondDeleteNotFound ==
  \A i, j \in Requests :
    (Follows(j, i) /\ request[j].UserId = request[i].UserId)
    => /\ Tagged(result[j], "NotFound", "id")
       /\ NumCalls(j, "UpdateAsync") = 0
       /\ request[j].UserId \notin roomUsers[room[i].Id]

C13_Witness ==
  \E i, j \in Requests :
    /\ Follows(j, i)
    /\ request[j].UserId = request[i].UserId
    /\ request[i].UserId \in roomResult[i].Value.Users
    /\ userToDeleteResult[j].IsFailure

\* ------------------------------------------------------------------ C14
\* C14: when every check passed and UpdateAsync failed, Handle returns
\* BadRequest with the empty field name and the repository's message, and
\* that is the only outcome an update failure has.
C14_UpdateFailureWrapped ==
  \A i \in Requests :
    (Returned(i) /\ updateResult[i].IsFailure)
    => /\ result[i].kind = "BadRequest"
       /\ result[i].field = ""
       /\ result[i].message = updateResult[i].Error
       /\ updateResult[i].Error \in UpdateFailures
       /\ calls[i] = <<"GetByCodeAsync", "GetByIdAsync", "GetByUserCodeAsync", "UpdateAsync">>

C14_Witness ==
  \E i \in Requests :
    /\ Returned(i)
    /\ AdminAndValidTarget(i)
    /\ roomResult[i].IsSuccess
    /\ roomResult[i].Value.ClosedOn = Null
    /\ updateResult[i].IsFailure
    /\ result[i] = BadRequestError("", "Database update failed")

\* ------------------------------------------------------------------ C15
\* C15: when the room lookup fails, Handle returns the repository's error
\* itself (its kind, field and message), the closed-room check and the
\* removal are not run and no UpdateAsync call is issued.
C15_RoomLookupFailurePassedThrough ==
  \A i \in Requests :
    (Returned(i) /\ roomResult[i].IsFailure)
    => /\ result[i] = roomResult[i].Error
       /\ result[i] \in RepoErrors
       /\ room[i] = NoRoom
       /\ updateResult[i] = UpdatePending
       /\ calls[i] = <<"GetByCodeAsync", "GetByIdAsync", "GetByUserCodeAsync">>

C15_Witness ==
  \E i, j \in Requests :
    /\ i # j
    /\ Returned(i) /\ AdminAndValidTarget(i) /\ roomResult[i].IsFailure
    /\ result[i].kind = "NotFound"
    /\ Returned(j) /\ AdminAndValidTarget(j) /\ roomResult[j].IsFailure
    /\ result[j].kind = "Forbidden"
    /\ NumCalls(i, "UpdateAsync") = 0

\* ------------------------------------------------------------------ C16
\* C16: a cancellation at any of the four awaits ends the invocation without
\* a result and without an UpdateAsync completed, the step leaves the
\* persisted rooms as they were, and the persisted collection of a room
\* changes only in the step in which some request's UpdateAsync succeeds and
\* that request returns success: an invocation that ends cancelled has
\* changed nothing.
C16_CancellationLeavesStore ==
  [][ /\ \A i \in Requests :
           (pc[i] # "cancelled" /\ pc'[i] = "cancelled")
           => /\ pc[i] \in {"GetByCodeAsync", "GetByIdAsync", "GetByUserCodeAsync",
                            "UpdateAsync"}
              /\ persisted' = persisted
              /\ result'[i] = NoResult
              /\ status'[i] = 0
              /\ updateResult'[i] = UpdatePending
              /\ NumCalls(i, "UpdateAsync")' = 0
      /\ roomUsers' # roomUsers
           => \E j \in Requests :
                /\ pc[j] = "UpdateAsync" /\ pc'[j] = "done"
                /\ result'[j] = Success
                /\ roomUsers' = [roomUsers EXCEPT ![room[j].Id] = room[j].Users] ]_vars

\* Cancelled while UpdateAsync was awaited: the aggregate in memory has lost
\* the target, the persisted room still holds it.
C16_Witness ==
  \E i \in Requests :
    /\ pc[i] = "cancelled"
    /\ calls[i] = <<"GetByCodeAsync", "GetByIdAsync", "GetByUserCodeAsync">>
    /\ roomResult[i].IsSuccess
    /\ request[i].UserId \in roomResult[i].Value.Users
    /\ request[i].UserId \notin room[i].Users
    /\ roomUsers[room[i].Id] = roomResult[i].Value.Users
    /\ result[i] = NoResult

\* ------------------------------------------------------------------ C17
\* C17: the endpoint answers success with 204, NotFound with 404, Forbidden
\* with 403 and BadRequest with 400, and answers a request without userCode
\* with 400 while the use case has not run: no repository call was made, no
\* lookup or update has an answer and no result exists.
C17_StatusMapping ==
  \A i \in Requests :
    /\ Returned(i)
       => /\ result[i].kind \in {"Success", "NotFound", "Forbidden", "BadRequest"}
          /\ result[i].kind = "Success" => status[i] = 204
          /\ result[i].kind = "NotFound" => status[i] = 404
          /\ result[i].kind = "Forbidden" => status[i] = 403
          /\ result[i].kind = "BadRequest" => status[i] = 400
    /\ pc[i] = "rejected"
       => /\ status[i] = 400
          /\ request[i].UserCode = NoUserCode
          /\ calls[i] = <<>>
          /\ adminUserResult[i] = Pending(NoUser)
          /\ userToDeleteResult[i] = Pending(NoUser)
          /\ roomResult[i] = Pending(NoRoom)
          /\ updateResult[i] = UpdatePending
          /\ result[i] = NoResult

\* A request without userCode for an existing non-admin was answered 400 and
\* the participant is still stored, while another request was answered 403.
C17_Witness ==
  \E i, j \in Requests :
    /\ pc[i] = "rejected" /\ status[i] = 400
    /\ request[i].UserId \in roomUsers[1]
    /\ ~IsAdminOf(request[i].UserId)
    /\ Returned(j) /\ result[j].kind = "Forbidden" /\ status[j] = 403

\* ------------------------------------------------------------------ C18
\* C18: when the checks of steps 1-7 passed and the loaded room's collection
\* does not hold the target, Handle goes on to UpdateAsync with the
\* collection as loaded, issues that call once, and returns success when the
\* update succeeds.
C18_AbsentTargetIsNoOp ==
  \A i \in Requests :
    ( /\ AdminAndValidTarget(i)
      /\ roomResult[i].IsSuccess
      /\ roomResult[i].Value.ClosedOn = Null
      /\ request[i].UserId \notin roomResult[i].Value.Users )
    => /\ pc[i] \in {"UpdateAsync", "done", "cancelled"}
       /\ room[i] = roomResult[i].Value
       /\ Returned(i)
          => /\ NumCalls(i, "UpdateAsync") = 1
             /\ updateResult[i].IsSuccess => result[i] = Success
             /\ updateResult[i].IsFailure => result[i].kind = "BadRequest"

C18_Witness ==
  \E i \in Requests :
    /\ Returned(i)
    /\ AdminAndValidTarget(i)
    /\ roomResult[i].IsSuccess
    /\ roomResult[i].Value.ClosedOn = Null
    /\ request[i].UserId \notin roomResult[i].Value.Users
    /\ updateResult[i].IsSuccess
    /\ result[i] = Success
    /\ roomUsers[room[i].Id] = roomResult[i].Value.Users

\* ------------------------------------------------------------------ C19
\* Requests i and j, by the same admin for two different participants, have
\* both returned success, and each loaded the room while it still held both
\* targets, that is before the other's update was stored.
Interleaved(i, j) ==
  /\ i # j
  /\ Returned(i) /\ result[i] = Success /\ updateResult[i].IsSuccess
  /\ Returned(j) /\ result[j] = Success /\ updateResult[j].IsSuccess
  /\ request[i].UserCode = request[j].UserCode
  /\ request[i].UserId # request[j].UserId
  /\ {request[i].UserId, request[j].UserId} \subseteq roomResult[i].Value.Users
  /\ {request[i].UserId, request[j].UserId} \subseteq roomResult[j].Value.Users

\* C19 as stated: after two interleaved deletes of different participants
\* that both returned success, both targets are absent from the persisted
\* room.
C19_BothAbsentAfterInterleaving ==
  \A i, j \in Requests :
    Interleaved(i, j)
    => /\ request[i].UserId \notin roomUsers[room[i].Id]
       /\ request[j].UserId \notin roomUsers[room[i].Id]

\* C19, amended: after two interleaved deletes of different participants
\* that both returned success, the persisted room is the aggregate of the
\* request whose update was stored last: that request's target is absent and
\* the other request's target is present again.
C19_LastWriteWins ==
  \A i, j \in Requests :
    Interleaved(i, j)
    => /\ room[i].Id = room[j].Id
       /\ \/ /\ roomUsers[room[i].Id] = room[i].Users
             /\ request[i].UserId \notin roomUsers[room[i].Id]
             /\ request[j].UserId \in roomUsers[room[i].Id]
          \/ /\ roomUsers[room[i].Id] = room[j].Users
             /\ request[j].UserId \notin roomUsers[room[i].Id]
             /\ request[i].UserId \in roomUsers[room[i].Id]

C19_Witness ==
  \E i, j \in Requests :
    /\ Interleaved(i, j)
    /\ roomUsers[room[i].Id] = room[j].Users
    /\ request[i].UserId \in roomUsers[room[i].Id]
    /\ status[i] = 204 /\ status[j] = 204

\* ------------------------------------------------------------------ C20
\* C20: in ParticipantsList, onDeleteParticipant is invoked only by a confirm
\* that follows a delete-button click with no cancel or confirm in between,
\* then once and with the id of the participant whose button was clicked; a
\* cancel does not invoke it; after a confirm or a cancel participantToDelete
\* is null; and a delete button is offered only on the card of a listed
\* non-admin participant other than the current user, while the current
\* user's code is the listed admin's code.
C20_DeleteConfirmation ==
  [][ /\ deleteCalls' # deleteCalls
           => /\ uiEvent' = "confirm"
              /\ lastClicked # 0
              /\ deleteCalls' = Append(deleteCalls, lastClicked)
      /\ uiEvent' = "cancel" => deleteCalls' = deleteCalls
      /\ uiEvent' \in {"confirm", "cancel"} => participantToDelete' = 0
      /\ \A user \in Users :
           onDeleteButtonClick(user)'
           => /\ user \in participants'
              /\ ~IsAdminOf(user)
              /\ AuthCode(user) # userCode'
              /\ \E a \in participants' : IsAdminOf(a) /\ userCode' = AuthCode(a)
      /\ lastClicked' \notin {0, lastClicked} => onDeleteButtonClick(lastClicked') ]_vars

\* A click on one card, a cancel, a click on another card and a confirm: the
\* callback was invoked once, with the second participant.
C20_Witness ==
  /\ uiEvent = "confirm"
  /\ uiEvents = 4
  /\ Len(deleteCalls) = 1
  /\ participantToDelete = 0
  /\ deleteCalls[1] \in restParticipants
  /\ Cardinality(restParticipants) > 1
  /\ userCode = AuthCode(admin)
====
